---- MODULE Spec2Model ----
(***************************************************************************)
(* Model of @apiratorjs/locking: the Semaphore wait-queue engine           *)
(* (src/src/semaphore.ts), Mutex (a Semaphore of one permit) and the       *)
(* ReadWriteLock built on two semaphores (src/src/read-write-lock.ts),     *)
(* and the in-memory distributed handles that reach one such primitive by  *)
(* name through a registry (src/src/in-memory-distributed/).               *)
(*                                                                         *)
(* JavaScript runs one synchronous slice at a time.  A slice ends at an    *)
(* `await`; the continuation is a promise job in the microtask queue `mq`, *)
(* which is FIFO.  Timer callbacks are macrotasks: they run only when the  *)
(* microtask queue is empty.  Calls made by the library's users may come   *)
(* from any slice, so the call actions are enabled in every state.         *)
(***************************************************************************)
EXTENDS Integers, Sequences, FiniteSets, TLC

\* ---------------------------------------------------------------- bounds
NumReq == 4          \* number of requests / tasks issued in one behaviour
MaxN == 2            \* largest maxCount (maxReaders) a behaviour may pick
MaxCancel == 1       \* cancelAll calls that may be in progress at once
NamedReq == 3        \* acquire calls made through the handles of several names
NumHandles == 2      \* distributed handles constructed with the one name

Ids == 1..NumReq
Handles == 1..NumHandles

\* ------------------------------------------------------------- constants
Undefined == "<undefined>"                \* an omitted errMessage argument
CancelArgs == {Undefined, "msg"}          \* arguments given to cancelAll
TimeoutError == "Timeout acquiring semaphore"
SemaphoreCancelled == "Semaphore cancelled"
Outcomes == {"return", "throw"}           \* the ways a callback can end
\* the errors of a registry lookup, `${type} '${name}' ...`
DoesNotExist == "does not exist"
HasBeenDestroyed == "has been destroyed"
RWLockDestroyed == "ReadWriteLock destroyed"

VARIABLES
  sem,      \* semaphore name -> [maxCount, freeCount, queue, anyL, fullL]
  req,      \* request id -> [kind, st, err, rel, how, task, out, got]
  mq,       \* the microtask queue: pending promise jobs, FIFO
  nextId,   \* the id the next issued request gets
  handles,  \* distributed handle -> [made, destroyed] (its _isDestroyed flag)
  registry  \* TRUE iff the registry has an entry under the handles' name;
            \* the entry's value is then the primitive held in `sem`

vars == <<sem, req, mq, nextId, handles, registry>>

\* ------------------------------------------------------------ data model
\* new Semaphore(maxCount): semaphore.ts constructor
NewSemaphore(n) ==
  [maxCount |-> n, freeCount |-> n, queue |-> <<>>, anyL |-> <<>>, fullL |-> <<>>]

\* a request that was not issued yet
NoReq == [kind |-> "none", st |-> "new", err |-> "", rel |-> 0, how |-> "",
          task |-> FALSE, out |-> "", got |-> "", via |-> 0]

\* a handle object that was not constructed yet
NoHandle == [made |-> FALSE, destroyed |-> FALSE]

\* the semaphore a request of the given kind acquires its permit from
OwnSem(kind) == CASE kind = "read" -> "R" [] kind = "write" -> "W" [] OTHER -> "S"
\* the semaphore acquireRead / acquireWrite waits on before acquiring
GateSem(kind) == IF kind = "read" THEN "W" ELSE "R"

World == [sem |-> sem, req |-> req, mq |-> mq]

Job(k, id, s, msg, h) == [k |-> k, id |-> id, s |-> s, msg |-> msg, h |-> h]

\* Array.prototype.indexOf on the queue: 0 stands for -1
RECURSIVE IndexFrom(_, _, _)
IndexFrom(q, x, i) ==
  IF i > Len(q) THEN 0 ELSE IF q[i] = x THEN i ELSE IndexFrom(q, x, i + 1)
IndexOf(q, x) == IndexFrom(q, x, 1)

\* Array.prototype.splice(index, 1)
Splice1(q, i) == SubSeq(q, 1, i - 1) \o SubSeq(q, i + 1, Len(q))

\* errMessage ?? "Semaphore cancelled"
ErrText(m) == IF m = Undefined THEN SemaphoreCancelled ELSE m

\* ------------------------------------------------- promise settlement
\* deferred.resolve() of a queued acquire: clears the timer and resolves the
\* promise with the releaser; on an already settled promise it does nothing.
ResolveDeferred(w, id) ==
  IF w.req[id].st = "queued"
  THEN [w EXCEPT !.req[id].st = "held", !.req[id].how = "queue"]
  ELSE w

\* deferred.reject(err) of a queued acquire: clears the timer and rejects.
RejectDeferred(w, id, err) ==
  IF w.req[id].st = "queued"
  THEN [w EXCEPT !.req[id].st = "rejected", !.req[id].err = err]
  ELSE w

\* listener.resolve() of a waitForAnyUnlock / waitForFullyUnlock promise P.
\* For acquireRead/acquireWrite the async function's own promise A follows P
\* through a PromiseResolveThenable job ("link"): if that job already ran,
\* the awaiting continuation runs two promise jobs after P is resolved.
ResolveListener(w, id) ==
  CASE w.req[id].st = "gateLinked" ->
         [w EXCEPT !.req[id].st = "gateCont",
                   !.mq = Append(@, Job("cont", id, "", "", 2))]
    [] w.req[id].st = "gateNew" -> [w EXCEPT !.req[id].st = "gateEarly"]
    [] w.req[id].st = "waiting" ->
         [w EXCEPT !.req[id].st = "resolved", !.req[id].how = "listener"]
    [] OTHER -> w

\* listener.reject(err)
RejectListener(w, id, err) ==
  IF w.req[id].st \in {"gateLinked", "gateNew", "waiting"}
  THEN [w EXCEPT !.req[id].st = "rejected", !.req[id].err = err]
  ELSE w

RECURSIVE ResolveAll(_, _)
ResolveAll(w, ids) ==
  IF ids = <<>> THEN w ELSE ResolveAll(ResolveListener(w, Head(ids)), Tail(ids))

RECURSIVE RejectAll(_, _, _)
RejectAll(w, ids, err) ==
  IF ids = <<>> THEN w ELSE RejectAll(RejectListener(w, Head(ids), err), Tail(ids), err)

RECURSIVE RejectQueue(_, _, _)
RejectQueue(w, ids, err) ==
  IF ids = <<>> THEN w ELSE RejectQueue(RejectDeferred(w, Head(ids), err), Tail(ids), err)

\* ------------------------------------------------------ Semaphore methods
\* a wrong acquire: the fast path is taken one permit too far
acquire_OffByOne(w, s, id) ==
  IF w.sem[s].freeCount >= 0
  THEN [w EXCEPT !.sem[s].freeCount = @ - 1,
                 !.req[id].st = "held", !.req[id].how = "fast"]
  ELSE [w EXCEPT !.sem[s].queue = Append(@, id),
                 !.req[id].st = "queued"]

\* Semaphore.acquire (semaphore.ts 90-128): synchronous up to its return.
acquire(w, s, id) ==
  IF w.sem[s].freeCount > 0
  THEN [w EXCEPT !.sem[s].freeCount = @ - 1,
                 !.req[id].st = "held", !.req[id].how = "fast"]
  ELSE [w EXCEPT !.sem[s].queue = Append(@, id),
                 !.req[id].st = "queued"]

\* a wrong timer callback: splice(index) drops the rest of the queue too
timeoutCallback_SpliceRest(w, s, id) ==
  LET index == IndexOf(w.sem[s].queue, id)
      w1 == IF index # 0
            THEN [w EXCEPT !.sem[s].queue = SubSeq(@, 1, index - 1)]
            ELSE w
  IN  [w1 EXCEPT !.req[id].st = "rejected", !.req[id].err = TimeoutError]

\* a wrong timer callback: the request is taken out of the queue but its
\* promise is not rejected
timeoutCallback_NoReject(w, s, id) ==
  LET index == IndexOf(w.sem[s].queue, id)
  IN  IF index # 0
      THEN [w EXCEPT !.sem[s].queue = Splice1(@, index)]
      ELSE w

\* a wrong timer callback: a request that is no longer in the queue is taken
\* for settled and is not rejected
timeoutCallback_SkipIfGone(w, s, id) ==
  LET index == IndexOf(w.sem[s].queue, id)
  IN  IF index # 0
      THEN [w EXCEPT !.sem[s].queue = Splice1(@, index),
                     !.req[id].st = "rejected", !.req[id].err = TimeoutError]
      ELSE w

\* a wrong cleanup: the acquire of a task sits inside the try block, so the
\* finally block gives a permit back after an acquisition that failed
timeoutCallback_ThenRelease(w, s, id) ==
  LET index == IndexOf(w.sem[s].queue, id)
      w1 == IF index # 0
            THEN [w EXCEPT !.sem[s].queue = Splice1(@, index)]
            ELSE w
      w2 == [w1 EXCEPT !.req[id].st = "rejected", !.req[id].err = TimeoutError]
  IN  IF w.req[id].task /\ w2.sem[s].freeCount < w2.sem[s].maxCount
      THEN [w2 EXCEPT !.sem[s].freeCount = @ + 1]
      ELSE w2

\* the setTimeout callback of a queued acquire (semaphore.ts 102-109)
timeoutCallback(w, s, id) ==
  LET index == IndexOf(w.sem[s].queue, id)
      w1 == IF index # 0
            THEN [w EXCEPT !.sem[s].queue = Splice1(@, index)]
            ELSE w
  IN  [w1 EXCEPT !.req[id].st = "rejected", !.req[id].err = TimeoutError]

\* a wrong notification: the waitForFullyUnlock listeners are resolved as
\* soon as any permit is free
releaseFree_FullOnAny(w, s) ==
  LET w1 == [w EXCEPT !.sem[s].freeCount = @ + 1]
      w2 == IF w1.sem[s].freeCount > 0 /\ Len(w1.sem[s].anyL) > 0
            THEN ResolveAll([w1 EXCEPT !.sem[s].anyL = <<>>], w1.sem[s].anyL)
            ELSE w1
  IN  IF w2.sem[s].freeCount > 0
      THEN ResolveAll([w2 EXCEPT !.sem[s].fullL = <<>>], w2.sem[s].fullL)
      ELSE w2

\* Semaphore.release, queue empty (semaphore.ts 161-175): the permit goes
\* back and the observers whose condition now holds are resolved
releaseFree(w, s) ==
  LET w1 == [w EXCEPT !.sem[s].freeCount = @ + 1]
      w2 == IF w1.sem[s].freeCount > 0 /\ Len(w1.sem[s].anyL) > 0
            THEN ResolveAll([w1 EXCEPT !.sem[s].anyL = <<>>], w1.sem[s].anyL)
            ELSE w1
  IN  IF w2.sem[s].freeCount = w2.sem[s].maxCount
      THEN ResolveAll([w2 EXCEPT !.sem[s].fullL = <<>>], w2.sem[s].fullL)
      ELSE w2

\* a wrong release: the head of the queue is shifted but never resolved
release_DropsHead(w, s) ==
  IF w.sem[s].freeCount = w.sem[s].maxCount
  THEN w
  ELSE IF Len(w.sem[s].queue) > 0
       THEN [w EXCEPT !.sem[s].queue = Tail(@)]
       ELSE releaseFree(w, s)

\* a wrong release: pop() instead of shift()
release_Lifo(w, s) ==
  IF w.sem[s].freeCount = w.sem[s].maxCount
  THEN w
  ELSE IF Len(w.sem[s].queue) > 0
       THEN ResolveDeferred(
              [w EXCEPT !.sem[s].queue = SubSeq(@, 1, Len(@) - 1)],
              w.sem[s].queue[Len(w.sem[s].queue)])
       ELSE releaseFree(w, s)

\* a wrong release: the over-release guard is missing
release_NoGuard(w, s) ==
  IF Len(w.sem[s].queue) > 0
  THEN ResolveDeferred([w EXCEPT !.sem[s].queue = Tail(@)], Head(w.sem[s].queue))
  ELSE releaseFree(w, s)

\* a wrong release: the permit handed to the head of the queue is also
\* counted as free
release_KeepsPermit(w, s) ==
  IF w.sem[s].freeCount = w.sem[s].maxCount
  THEN w
  ELSE IF Len(w.sem[s].queue) > 0
       THEN ResolveDeferred([w EXCEPT !.sem[s].queue = Tail(@),
                                      !.sem[s].freeCount = @ + 1],
                            Head(w.sem[s].queue))
       ELSE releaseFree(w, s)

\* Semaphore.release (semaphore.ts 153-176)
release(w, s) ==
  IF w.sem[s].freeCount = w.sem[s].maxCount
  THEN w
  ELSE IF Len(w.sem[s].queue) > 0
       THEN ResolveDeferred([w EXCEPT !.sem[s].queue = Tail(@)],
                            Head(w.sem[s].queue))
       ELSE releaseFree(w, s)

\* Semaphore.cancelAll up to its `await Promise.all(...)` (semaphore.ts
\* 130-133): every queued deferred is rejected; the queue itself is kept.
\* Promise.all of an empty list is already fulfilled (the continuation is the
\* next promise job); otherwise it is fulfilled by the element jobs, one
\* promise job later.
cancelAllBegin(w, s, m) ==
  LET w1 == RejectQueue(w, w.sem[s].queue, ErrText(m))
  IN  [w1 EXCEPT !.mq = Append(@, Job("cancel", 0, s, m,
                                     IF Len(w.sem[s].queue) = 0 THEN 1 ELSE 2))]

\* a wrong cancelAll: the queue is emptied but freeCount is not reset
cancelAllFinish_NoReset(w, s, m) ==
  LET w1 == [w EXCEPT !.sem[s].queue = <<>>]
      w2 == RejectAll([w1 EXCEPT !.sem[s].anyL = <<>>], w1.sem[s].anyL, ErrText(m))
  IN  RejectAll([w2 EXCEPT !.sem[s].fullL = <<>>], w2.sem[s].fullL, ErrText(m))

\* a wrong cancelAll: the observers are resolved, as if the permits had been
\* released
cancelAllFinish_ResolvesObservers(w, s, m) ==
  LET w1 == [w EXCEPT !.sem[s].queue = <<>>,
                      !.sem[s].freeCount = w.sem[s].maxCount]
      w2 == ResolveAll([w1 EXCEPT !.sem[s].anyL = <<>>], w1.sem[s].anyL)
  IN  ResolveAll([w2 EXCEPT !.sem[s].fullL = <<>>], w2.sem[s].fullL)

\* a wrong cancelAll: the permits are reset but the observers are left on
\* their listener lists
cancelAllFinish_KeepsObservers(w, s, m) ==
  [w EXCEPT !.sem[s].queue = <<>>,
            !.sem[s].freeCount = w.sem[s].maxCount]

\* Semaphore.cancelAll after the await (semaphore.ts 135-146)
cancelAllFinish(w, s, m) ==
  LET w1 == [w EXCEPT !.sem[s].queue = <<>>,
                      !.sem[s].freeCount = w.sem[s].maxCount]
      w2 == RejectAll([w1 EXCEPT !.sem[s].anyL = <<>>], w1.sem[s].anyL, ErrText(m))
  IN  RejectAll([w2 EXCEPT !.sem[s].fullL = <<>>], w2.sem[s].fullL, ErrText(m))

\* --------------------------------------------------------------- actions
Commit(w) ==
  /\ sem' = w.sem /\ req' = w.req /\ mq' = w.mq
  /\ UNCHANGED <<handles, registry>>

Issue(kind) == [World EXCEPT !.req[nextId].kind = kind]
\* a call that carries a callback: runExclusive, withReadLock, withWriteLock
IssueTask(kind) ==
  [World EXCEPT !.req[nextId].kind = kind, !.req[nextId].task = TRUE]

\* a caller invokes semaphore.acquire(params)
Acquire ==
  /\ nextId <= NumReq
  /\ Commit(acquire(Issue("acq"), "S", nextId))
  /\ nextId' = nextId + 1

\* the first releaser.release() of a holder (Releaser.release, 12-14).  The
\* holder decides when to release: any moment from the grant on is allowed,
\* which covers every moment at which the releaser can be in its hands.
Release(id) ==
  /\ req[id].st = "held" /\ ~req[id].task
  /\ Commit(release([World EXCEPT !.req[id].st = "released", !.req[id].rel = 1],
                    OwnSem(req[id].kind)))
  /\ UNCHANGED nextId

\* a second or later releaser.release() on the same releaser
ReleaseAgain(id) ==
  /\ req[id].st = "released"
  /\ Commit(release([World EXCEPT !.req[id].rel = 2], OwnSem(req[id].kind)))
  /\ UNCHANGED nextId

\* a wrong timer: armed when acquireRead / acquireWrite is called, so that it
\* also runs while the request waits for the opposing semaphore
Timeout_WholeCall(id) ==
  /\ req[id].st \in {"queued", "gateNew", "gateLinked"}
  /\ mq = <<>>
  /\ Commit(timeoutCallback(World, OwnSem(req[id].kind), id))
  /\ UNCHANGED nextId

\* a wrong timer: resolve / reject do not clear it, so it also fires for a
\* request that was granted or rejected
Timeout_NotCleared(id) ==
  /\ req[id].st \in {"queued", "held", "rejected"} /\ req[id].how # "fast"
  /\ req[id].err # TimeoutError
  /\ mq = <<>>
  /\ Commit(timeoutCallback(World, OwnSem(req[id].kind), id))
  /\ UNCHANGED nextId

\* the timer of a queued acquire fires (a macrotask)
Timeout(id) ==
  /\ req[id].st = "queued"
  /\ mq = <<>>
  /\ Commit(timeoutCallback(World, OwnSem(req[id].kind), id))
  /\ UNCHANGED nextId

\* cancelAll calls whose second half has not run yet
CancelsInProgress == Len(SelectSeq(mq, LAMBDA j : j.k = "cancel"))

\* a caller invokes semaphore.cancelAll(m)
CancelAll(m) ==
  /\ CancelsInProgress < MaxCancel
  /\ Commit(cancelAllBegin(World, "S", m))
  /\ UNCHANGED nextId

\* ------------------------------------------------- Semaphore.runExclusive
\* runExclusive (semaphore.ts 65-84; Mutex.runExclusive delegates to it):
\* `await this.acquire(params)` outside the try, the callback inside it,
\* `releaser.release()` in the finally.
RunExclusive ==
  /\ nextId <= NumReq
  /\ Commit(acquire(IssueTask("excl"), "S", nextId))
  /\ nextId' = nextId + 1

\* the acquire promise has delivered the releaser: the callback starts
BodyStart(id) ==
  /\ req[id].task /\ req[id].st = "held"
  /\ req' = [req EXCEPT ![id].st = "body"]
  /\ UNCHANGED <<sem, mq, nextId, handles, registry>>

\* a wrong cleanup: the release sits after the callback instead of in a
\* finally block, so a throwing callback skips it
finallyRelease_OnlyOnReturn(w, id, o) ==
  LET w1 == [w EXCEPT !.req[id].out = o,
                      !.mq = Append(@, Job("settle", id, "", "", 2))]
  IN  IF o = "throw"
      THEN [w1 EXCEPT !.req[id].st = "released"]
      ELSE release([w1 EXCEPT !.req[id].st = "released", !.req[id].rel = 1],
                   OwnSem(w.req[id].kind))

\* try { return await callback() } finally { await releaser.release() }
\* (semaphore.ts 79-83; read-write-lock.ts 101-105, 122-126): whichever way
\* the callback ended, release() is called in the slice that leaves the try
\* block; the method's own promise settles with the callback's outcome after
\* the awaited release promise, two promise jobs later.
finallyRelease(w, id, o) ==
  LET w1 == [w EXCEPT !.req[id].out = o,
                      !.mq = Append(@, Job("settle", id, "", "", 2))]
  IN  release([w1 EXCEPT !.req[id].st = "released", !.req[id].rel = 1],
              OwnSem(w.req[id].kind))

\* the promise of runExclusive / withReadLock / withWriteLock settles: the
\* caller receives the callback's result or the error it threw
settle(w, id) == [w EXCEPT !.req[id].got = w.req[id].out]

\* what the promise of runExclusive / withReadLock / withWriteLock delivers:
\* `await this.acquire(params)` stands outside the try block, so a rejected
\* acquisition rejects the method's promise with the same error
received(id) ==
  IF req[id].st = "rejected" THEN <<"throw", req[id].err>>
  ELSE IF req[id].got # "" THEN <<req[id].got, "callback">>
  ELSE <<"pending", "">>

\* the callback returns or throws
BodyEnd(id, o) ==
  /\ req[id].st = "body"
  /\ Commit(finallyRelease(World, id, o))
  /\ UNCHANGED nextId

\* ------------------------------------------------------- ReadWriteLock
\* a wrong gate (writer preference): a read request also waits when write
\* requests are waiting for the readers to drain
waitForFullyUnlock_WriterFirst(w, s, id) ==
  IF w.sem[s].maxCount = w.sem[s].freeCount
     /\ ~(w.req[id].kind = "read" /\ Len(w.sem[OwnSem("read")].fullL) > 0)
  THEN IF w.req[id].kind = "full"
       THEN [w EXCEPT !.req[id].st = "resolved", !.req[id].how = "fast"]
       ELSE [w EXCEPT !.req[id].st = "gateCont",
                      !.mq = Append(@, Job("cont", id, "", "", 1))]
  ELSE IF w.req[id].kind = "full"
       THEN [w EXCEPT !.sem[s].fullL = Append(@, id),
                      !.req[id].st = "waiting"]
       ELSE [w EXCEPT !.sem[s].fullL = Append(@, id),
                      !.req[id].st = "gateNew",
                      !.mq = Append(@, Job("link", id, "", "", 1))]

\* acquireRead / acquireWrite up to `await gate.waitForFullyUnlock()`
\* (read-write-lock.ts 55, 68; semaphore.ts 39-50).  If the gate semaphore is
\* fully unlocked the awaited promise is already fulfilled and the rest of
\* the method is the next promise job; otherwise the request is pushed on
\* the gate's listener list and the method's promise is linked to the
\* listener promise by a promise job ("link").
\* Called by a user of the Semaphore (an observer, kind "full"), the promise
\* it returns is what the model records: resolved, or waiting on the list.
waitForFullyUnlock(w, s, id) ==
  IF w.sem[s].maxCount = w.sem[s].freeCount
  THEN IF w.req[id].kind = "full"
       THEN [w EXCEPT !.req[id].st = "resolved", !.req[id].how = "fast"]
       ELSE [w EXCEPT !.req[id].st = "gateCont",
                      !.mq = Append(@, Job("cont", id, "", "", 1))]
  ELSE IF w.req[id].kind = "full"
       THEN [w EXCEPT !.sem[s].fullL = Append(@, id),
                      !.req[id].st = "waiting"]
       ELSE [w EXCEPT !.sem[s].fullL = Append(@, id),
                      !.req[id].st = "gateNew",
                      !.mq = Append(@, Job("link", id, "", "", 1))]

\* Semaphore.waitForAnyUnlock (semaphore.ts 52-63); Mutex.waitForUnlock
\* returns it (part_006 72-74)
waitForAnyUnlock(w, s, id) ==
  IF w.sem[s].freeCount > 0
  THEN [w EXCEPT !.req[id].st = "resolved", !.req[id].how = "fast"]
  ELSE [w EXCEPT !.sem[s].anyL = Append(@, id),
                 !.req[id].st = "waiting"]

\* a caller invokes semaphore.waitForAnyUnlock() (mutex.waitForUnlock())
WaitForAnyUnlock ==
  /\ nextId <= NumReq
  /\ Commit(waitForAnyUnlock(Issue("any"), "S", nextId))
  /\ nextId' = nextId + 1

\* a caller invokes semaphore.waitForFullyUnlock()
WaitForFullyUnlock ==
  /\ nextId <= NumReq
  /\ Commit(waitForFullyUnlock(Issue("full"), "S", nextId))
  /\ nextId' = nextId + 1

\* the PromiseResolveThenable job of a pending waitForFullyUnlock
linkJob(w, id) ==
  CASE w.req[id].st = "gateNew" -> [w EXCEPT !.req[id].st = "gateLinked"]
    [] w.req[id].st = "gateEarly" ->
         [w EXCEPT !.req[id].st = "gateCont",
                   !.mq = Append(@, Job("cont", id, "", "", 2))]
    [] OTHER -> w

\* acquireRead / acquireWrite after the await: acquire on the own semaphore
\* (read-write-lock.ts 59, 72)
acquireOwn(w, id) == acquire(w, OwnSem(w.req[id].kind), id)

AcquireRead ==
  /\ nextId <= NumReq
  /\ Commit(waitForFullyUnlock(Issue("read"), "W", nextId))
  /\ nextId' = nextId + 1

AcquireWrite ==
  /\ nextId <= NumReq
  /\ Commit(waitForFullyUnlock(Issue("write"), "R", nextId))
  /\ nextId' = nextId + 1

\* withReadLock (read-write-lock.ts 87-106): `await this.acquireRead(params)`
\* outside the try, the callback inside it, release in the finally
WithReadLock ==
  /\ nextId <= NumReq
  /\ Commit(waitForFullyUnlock(IssueTask("read"), "W", nextId))
  /\ nextId' = nextId + 1

\* withWriteLock (read-write-lock.ts 108-127)
WithWriteLock ==
  /\ nextId <= NumReq
  /\ Commit(waitForFullyUnlock(IssueTask("write"), "R", nextId))
  /\ nextId' = nextId + 1

\* a wrong ReadWriteLock.cancelAll: only the read semaphore is cancelled
CancelAllRW_ReadOnly(m) ==
  /\ CancelsInProgress < 2 * MaxCancel
  /\ Commit(cancelAllBegin(World, "R", m))
  /\ UNCHANGED nextId

\* ReadWriteLock.cancelAll (read-write-lock.ts 80-85): both cancelAll calls
\* are made, in this order, before either of them resumes
CancelAllRW(m) ==
  /\ CancelsInProgress < 2 * MaxCancel
  /\ Commit(cancelAllBegin(cancelAllBegin(World, "R", m), "W", m))
  /\ UNCHANGED nextId

\* Semaphore.isLocked (semaphore.ts 149-151): `this._freeCount === 0`
isLocked(w, s) == w.sem[s].freeCount = 0

\* ReadWriteLock.isReadLocked (read-write-lock.ts 133-135)
isReadLocked == isLocked(World, "R")

\* ReadWriteLock.isWriteLocked (read-write-lock.ts 129-131)
isWriteLocked == isLocked(World, "W")

\* ReadWriteLock.activeReaders (read-write-lock.ts 48-52)
activeReaders == sem["R"].maxCount - sem["R"].freeCount

\* the promise job at the head of the microtask queue runs
RunJob(w, j) ==
  CASE j.h > 1 -> [w EXCEPT !.mq = Append(@, [j EXCEPT !.h = @ - 1])]
    [] j.k = "cancel" -> cancelAllFinish(w, j.s, j.msg)
    [] j.k = "link" -> linkJob(w, j.id)
    [] j.k = "cont" -> acquireOwn(w, j.id)
    [] j.k = "settle" -> settle(w, j.id)
    [] OTHER -> w

Microtask ==
  /\ mq # <<>>
  /\ Commit(RunJob([World EXCEPT !.mq = Tail(@)], Head(mq)))
  /\ UNCHANGED nextId

\* -------------------------------------------------------- specifications
InitSem ==
  /\ \E n \in 1..MaxN : sem = [s \in {"S"} |-> NewSemaphore(n)]
  /\ req = [id \in Ids |-> NoReq]
  /\ mq = <<>>
  /\ nextId = 1
  /\ handles = [h \in Handles |-> NoHandle]
  /\ registry = FALSE

NextSem ==
  \/ Acquire
  \/ \E id \in Ids : Release(id)
  \/ \E id \in Ids : ReleaseAgain(id)
  \/ \E id \in Ids : Timeout(id)
  \/ \E m \in CancelArgs : CancelAll(m)
  \/ Microtask

SpecSem == InitSem /\ [][NextSem]_vars

\* only runExclusive tasks, with their timeouts
NextExcl ==
  \/ RunExclusive
  \/ \E id \in Ids : BodyStart(id)
  \/ \E id \in Ids, o \in Outcomes : BodyEnd(id, o)
  \/ \E id \in Ids : Timeout(id)
  \/ Microtask

SpecExcl == InitSem /\ [][NextExcl]_vars

\* new ReadWriteLock({maxReaders: m}) (read-write-lock.ts 37-42)
InitRW ==
  /\ \E m \in 1..MaxN : sem = [s \in {"R", "W"} |->
                                 IF s = "R" THEN NewSemaphore(m) ELSE NewSemaphore(1)]
  /\ req = [id \in Ids |-> NoReq]
  /\ mq = <<>>
  /\ nextId = 1
  /\ handles = [h \in Handles |-> NoHandle]
  /\ registry = FALSE

NextRW ==
  \/ AcquireRead
  \/ AcquireWrite
  \/ \E id \in Ids : Release(id)
  \/ \E id \in Ids : ReleaseAgain(id)
  \/ \E id \in Ids : Timeout(id)
  \/ \E m \in CancelArgs : CancelAllRW(m)
  \/ Microtask

SpecRW == InitRW /\ [][NextRW]_vars

\* the read/write lock used with discipline: every releaser is released at
\* most once and cancelAll is not called
NextRWOnce ==
  \/ AcquireRead
  \/ AcquireWrite
  \/ \E id \in Ids : Release(id)
  \/ \E id \in Ids : Timeout(id)
  \/ Microtask

SpecRWOnce == InitRW /\ [][NextRWOnce]_vars

\* Scheduling of the JavaScript host: a pending promise job is run (the
\* microtask queue is drained before anything else), and a timer that is due
\* fires once the queue is empty.  Callers are under no obligation: holders
\* need not release.
SpecRWFair ==
  /\ InitRW /\ [][NextRWOnce]_vars
  /\ WF_vars(Microtask)
  /\ \A id \in Ids : WF_vars(Timeout(id))

\* one Semaphore with its observers
NextObs ==
  \/ Acquire
  \/ WaitForAnyUnlock
  \/ WaitForFullyUnlock
  \/ \E id \in Ids : Release(id)
  \/ \E id \in Ids : ReleaseAgain(id)
  \/ \E id \in Ids : Timeout(id)
  \/ \E m \in CancelArgs : CancelAll(m)
  \/ Microtask

SpecObs == InitSem /\ [][NextObs]_vars

\* The same host scheduling for one Semaphore with every call allowed.  A
\* caller may start a cancelAll while another is in progress, so the
\* assumption that timers eventually fire is stated in full: the microtask
\* queue is empty again and again (the host gets back to its timers), and a
\* timer that is due at those moments eventually fires.
SpecSemFair ==
  /\ InitSem /\ [][NextSem]_vars
  /\ WF_vars(Microtask)
  /\ []<>(mq = <<>>)
  /\ \A id \in Ids : SF_vars(Timeout(id))

\* One Semaphore whose holders all release eventually, exactly once: a
\* holder is a caller of acquire that releases, or a runExclusive callback
\* that ends.  No timer fires and cancelAll is not called.
NextSemRel ==
  \/ Acquire
  \/ RunExclusive
  \/ \E id \in Ids : Release(id)
  \/ \E id \in Ids : BodyStart(id)
  \/ \E id \in Ids, o \in Outcomes : BodyEnd(id, o)
  \/ Microtask

SpecSemRel ==
  /\ InitSem /\ [][NextSemRel]_vars
  /\ WF_vars(Microtask)
  /\ \A id \in Ids : /\ WF_vars(Release(id))
                      /\ WF_vars(BodyStart(id))
                      /\ WF_vars(\E o \in Outcomes : BodyEnd(id, o))

\* A ReadWriteLock whose holders, readers and writers, all release
\* eventually and exactly once; no timer fires and cancelAll is not called.
NextRWRel ==
  \/ AcquireRead
  \/ AcquireWrite
  \/ \E id \in Ids : Release(id)
  \/ Microtask

SpecRWRel ==
  /\ InitRW /\ [][NextRWRel]_vars
  /\ WF_vars(Microtask)
  /\ \A id \in Ids : WF_vars(Release(id))

\* A ReadWriteLock on which acquireWrite is called only while a writer holds
\* the write lock, except for the first acquireWrite call; acquireRead is
\* called at any time.  No timer fires and cancelAll is not called.
NextRWQueue ==
  \/ AcquireRead
  \/ /\ \/ \E id \in Ids : req[id].kind = "write" /\ req[id].st = "held"
        \/ \A id \in Ids : req[id].kind # "write"
     /\ AcquireWrite
  \/ \E id \in Ids : Release(id)
  \/ Microtask

SpecRWQueue == InitRW /\ [][NextRWQueue]_vars

\* callbacks run under one lock object, either a Semaphore (a Mutex when it
\* has one permit) or a ReadWriteLock
InitTasks == InitSem \/ InitRW

NextTasks ==
  \/ "S" \in DOMAIN sem /\ RunExclusive
  \/ "R" \in DOMAIN sem /\ WithReadLock
  \/ "R" \in DOMAIN sem /\ WithWriteLock
  \/ \E id \in Ids : BodyStart(id)
  \/ \E id \in Ids, o \in Outcomes : BodyEnd(id, o)
  \/ \E id \in Ids : Timeout(id)
  \/ Microtask

SpecTasks == InitTasks /\ [][NextTasks]_vars

\* a call that throws (for an async method: its promise is rejected)
Throw(w, id, err) == [w EXCEPT !.req[id].st = "rejected", !.req[id].err = err]

\* callbacks run under one lock object whose pending acquisitions can fail:
\* by their timeout or by cancelAll
NextTaskFail ==
  \/ "S" \in DOMAIN sem /\ RunExclusive
  \/ "R" \in DOMAIN sem /\ WithReadLock
  \/ "R" \in DOMAIN sem /\ WithWriteLock
  \/ \E id \in Ids : BodyStart(id)
  \/ \E id \in Ids : BodyEnd(id, "return")
  \/ \E id \in Ids : Timeout(id)
  \/ "S" \in DOMAIN sem /\ CancelAll(Undefined)
  \/ "R" \in DOMAIN sem /\ CancelAllRW(Undefined)
  \/ Microtask

SpecTaskFail == InitTasks /\ [][NextTaskFail]_vars

\* ------------------------------------------------ ReadWriteLock constructor
\* props?.maxReaders: <<>> when it is omitted, <<n>> when n is given
CtorArgs == {<<>>} \cup {<<n>> : n \in (0 - 1)..MaxN}
AssertionError == "maxCount must be greater than 0"

\* `props?.maxReaders || 100`: an omitted value and 0 are both falsy
maxReadersOrDefault(m) == IF m = <<>> \/ m[1] = 0 THEN 100 ELSE m[1]

\* new ReadWriteLock(props): the Semaphore constructor asserts maxCount > 0;
\* when it throws no lock exists and the caller may call the constructor again
NewReadWriteLock(m) ==
  /\ DOMAIN sem = {} /\ nextId <= NumReq
  /\ LET n == maxReadersOrDefault(m)
         w == Issue("new")
     IN  Commit(IF n > 0
                THEN [w EXCEPT !.sem = [s \in {"R", "W"} |->
                                         IF s = "R" THEN NewSemaphore(n)
                                                    ELSE NewSemaphore(1)],
                               !.req[nextId].st = "resolved"]
                ELSE Throw(w, nextId, AssertionError))
  /\ nextId' = nextId + 1

\* no lock was constructed yet
InitNew ==
  /\ sem = [s \in {} |-> NewSemaphore(1)]
  /\ req = [id \in Ids |-> NoReq]
  /\ mq = <<>>
  /\ nextId = 1
  /\ handles = [h \in Handles |-> NoHandle]
  /\ registry = FALSE

NextNew ==
  \/ \E m \in CtorArgs : NewReadWriteLock(m)
  \/ "R" \in DOMAIN sem /\ AcquireRead
  \/ "R" \in DOMAIN sem /\ AcquireWrite
  \/ \E id \in Ids : Release(id)
  \/ Microtask

SpecNew == InitNew /\ [][NextNew]_vars

\* ------------------------------------------- in-memory distributed handles
\* Every handle of a behaviour is constructed with the same name and kind, so
\* the registry is looked at under one key.  A handle holds no reference to
\* the primitive: each method looks the name up in the registry again.

\* handles are numbered in the order of their construction
NextHandle(h) == ~handles[h].made /\ \A g \in 1..(h - 1) : handles[g].made

\* a call made through handle h
IssueVia(kind, h) ==
  [World EXCEPT !.req[nextId].kind = kind, !.req[nextId].via = h]

\* InMemoryDistributedSemaphore.getSemaphoreOrException: "" when the lookup
\* succeeds, otherwise the text of the error it throws
getSemaphoreOrException(h) ==
  IF handles[h].destroyed THEN HasBeenDestroyed
  ELSE IF ~registry THEN DoesNotExist
  ELSE ""

\* new InMemoryDistributedSemaphore({ name, maxCount: n }); DistributedMutex
\* constructs it with maxCount 1.  The registry entry is set to a new
\* Semaphore whether or not the name is registered.  The Semaphore that was
\* registered before can no longer be reached: requests in its queue stay
\* pending, and the second half of a cancelAll running on it touches nothing
\* that can be observed, so its job is dropped.
ConstructSem(h, n) ==
  /\ NextHandle(h)
  /\ handles' = [handles EXCEPT ![h] = [made |-> TRUE, destroyed |-> FALSE]]
  /\ registry' = TRUE
  /\ sem' = [s \in {"S"} |-> NewSemaphore(n)]
  /\ mq' = SelectSeq(mq, LAMBDA j : j.k # "cancel")
  /\ UNCHANGED <<req, nextId>>

\* handle.acquire() without timeoutMs
AcquireVia(h) ==
  /\ handles[h].made /\ nextId <= NumReq
  /\ LET e == getSemaphoreOrException(h)
         w == IssueVia("acq", h)
     IN  Commit(IF e = "" THEN acquire(w, "S", nextId) ELSE Throw(w, nextId, e))
  /\ nextId' = nextId + 1

\* handle.release(token) by the holder of request id: the token is not looked
\* at, release() is called on the Semaphore registered now.  When the lookup
\* throws, no permit is given back.
ReleaseVia(h, id) ==
  /\ handles[h].made /\ req[id].kind = "acq" /\ req[id].st = "held"
  /\ LET e == getSemaphoreOrException(h)
     IN  Commit(IF e = ""
                THEN release([World EXCEPT !.req[id].st = "released",
                                           !.req[id].rel = 1], "S")
                ELSE [World EXCEPT !.req[id].st = "released", !.req[id].err = e])
  /\ UNCHANGED nextId

\* handle.cancelAll(m); a call whose lookup throws changes nothing
CancelAllVia(h, m) ==
  /\ handles[h].made /\ getSemaphoreOrException(h) = ""
  /\ CancelsInProgress < MaxCancel
  /\ Commit(cancelAllBegin(World, "S", m))
  /\ UNCHANGED nextId

\* handle.destroy(): the flag of this handle is set and the entry deleted;
\* the Semaphore itself is not touched
DestroySem(h) ==
  /\ handles[h].made
  /\ handles' = [handles EXCEPT ![h].destroyed = TRUE]
  /\ registry' = FALSE
  /\ UNCHANGED <<sem, req, mq, nextId>>

\* handle.freeCount(): the count, or -1 when the lookup throws
freeCountVia(h) ==
  IF getSemaphoreOrException(h) = "" THEN sem["S"].freeCount ELSE -1

\* the first handle has been constructed
InitDistSem ==
  /\ \E n \in 1..MaxN : sem = [s \in {"S"} |-> NewSemaphore(n)]
  /\ req = [id \in Ids |-> NoReq]
  /\ mq = <<>>
  /\ nextId = 1
  /\ handles = [h \in Handles |->
                  IF h = 1 THEN [made |-> TRUE, destroyed |-> FALSE] ELSE NoHandle]
  /\ registry = TRUE

NextDistSem ==
  \/ \E h \in Handles, n \in 1..MaxN : ConstructSem(h, n)
  \/ \E h \in Handles : AcquireVia(h)
  \/ \E h \in Handles, id \in Ids : ReleaseVia(h, id)
  \/ \E h \in Handles, m \in CancelArgs : CancelAllVia(h, m)
  \/ \E h \in Handles : DestroySem(h)
  \/ Microtask

SpecDistSem == InitDistSem /\ [][NextDistSem]_vars

\* InMemoryDistributedReadWriteLock.getRWLockOrException: "" when the lookup
\* succeeds, otherwise the text of the error it throws
getRWLockOrException(h) == IF registry THEN "" ELSE DoesNotExist

\* a wrong constructor: the entry is set without looking for an existing one
ConstructRW_AlwaysNew(h, m) ==
  /\ NextHandle(h)
  /\ handles' = [handles EXCEPT ![h] = [made |-> TRUE, destroyed |-> FALSE]]
  /\ registry' = TRUE
  /\ sem' = [s \in {"R", "W"} |->
               IF s = "R" THEN NewSemaphore(m) ELSE NewSemaphore(1)]
  /\ req' = [id \in Ids |->
               IF req[id].kind # "none" /\ req[id].st \notin {"rejected", "released"}
               THEN [req[id] EXCEPT !.st = "detached"]
               ELSE req[id]]
  /\ mq' = <<>>
  /\ UNCHANGED nextId

\* new InMemoryDistributedReadWriteLock({ name, maxReaders: m }): a new
\* ReadWriteLock is registered only when the name has no entry.  The lock of
\* an entry deleted earlier can then no longer be reached through a handle;
\* its unsettled requests and its promise jobs are not followed further.
ConstructRW(h, m) ==
  /\ NextHandle(h)
  /\ handles' = [handles EXCEPT ![h] = [made |-> TRUE, destroyed |-> FALSE]]
  /\ registry' = TRUE
  /\ IF registry
     THEN UNCHANGED <<sem, req, mq>>
     ELSE /\ sem' = [s \in {"R", "W"} |->
                       IF s = "R" THEN NewSemaphore(m) ELSE NewSemaphore(1)]
          /\ req' = [id \in Ids |->
                       IF req[id].kind # "none"
                          /\ req[id].st \notin {"rejected", "released"}
                       THEN [req[id] EXCEPT !.st = "detached"]
                       ELSE req[id]]
          /\ mq' = <<>>
  /\ UNCHANGED nextId

\* handle.acquireRead() / handle.acquireWrite()
AcquireReadVia(h) ==
  /\ handles[h].made /\ nextId <= NumReq
  /\ LET e == getRWLockOrException(h)
         w == IssueVia("read", h)
     IN  Commit(IF e = "" THEN waitForFullyUnlock(w, "W", nextId)
                          ELSE Throw(w, nextId, e))
  /\ nextId' = nextId + 1

AcquireWriteVia(h) ==
  /\ handles[h].made /\ nextId <= NumReq
  /\ LET e == getRWLockOrException(h)
         w == IssueVia("write", h)
     IN  Commit(IF e = "" THEN waitForFullyUnlock(w, "R", nextId)
                          ELSE Throw(w, nextId, e))
  /\ nextId' = nextId + 1

\* handle.destroy(m); a call whose lookup throws changes nothing
DestroyRW(h, m) ==
  /\ handles[h].made /\ getRWLockOrException(h) = ""
  /\ handles' = [handles EXCEPT ![h].destroyed = TRUE]
  /\ registry' = FALSE
  /\ LET msg == IF m = Undefined THEN RWLockDestroyed ELSE m
         w == cancelAllBegin(cancelAllBegin(World, "R", msg), "W", msg)
     IN  sem' = w.sem /\ req' = w.req /\ mq' = w.mq
  /\ UNCHANGED nextId

\* handle.isWriteLocked() / handle.activeReaders(): the value, or the error
isWriteLockedVia(h) ==
  IF getRWLockOrException(h) = "" THEN isLocked(World, "W") ELSE DoesNotExist
activeReadersVia(h) ==
  IF getRWLockOrException(h) = "" THEN activeReaders ELSE -1

\* the first handle has been constructed
InitDistRW ==
  /\ \E m \in 1..MaxN : sem = [s \in {"R", "W"} |->
                                 IF s = "R" THEN NewSemaphore(m) ELSE NewSemaphore(1)]
  /\ req = [id \in Ids |-> NoReq]
  /\ mq = <<>>
  /\ nextId = 1
  /\ handles = [h \in Handles |->
                  IF h = 1 THEN [made |-> TRUE, destroyed |-> FALSE] ELSE NoHandle]
  /\ registry = TRUE

NextDistRW ==
  \/ \E h \in Handles, m \in 1..MaxN : ConstructRW(h, m)
  \/ \E h \in Handles : AcquireReadVia(h)
  \/ \E h \in Handles : AcquireWriteVia(h)
  \/ \E id \in Ids : Release(id)
  \/ \E h \in Handles, m \in CancelArgs : DestroyRW(h, m)
  \/ Microtask

SpecDistRW == InitDistRW /\ [][NextDistRW]_vars

\* ---------------------------------- handles of several names and kinds
\* The registry is three Maps, one per kind (in-memory-distributed-registry.ts
\* 4-6); a handle looks into the Map of its kind under the key
\* `${type}:${name}`.  Here `registry` is the three key sets, `handles` maps
\* a handle [type, name] to the newest handle object constructed for it, and
\* `sem` holds the Semaphore of every semaphore or mutex key and, as "R" and
\* "W", the two semaphores of the read/write lock of name A.
Types == {"semaphore", "mutex", "rwlock"}
KeyOf(type, name) == type \o ":" \o name
SemaphoreHandles ==
  { [type |-> "semaphore", name |-> "A"], [type |-> "semaphore", name |-> "B"],
    [type |-> "mutex", name |-> "A"] }
RWLockHandles == { [type |-> "rwlock", name |-> "A"] }
NamedHandles == SemaphoreHandles \cup RWLockHandles
KeyOfHandle(g) == KeyOf(g.type, g.name)

\* getSemaphoreOrException / getRWLockOrException of handle g: "" or the
\* text of the error
lookupNamed(g) ==
  IF g.type # "rwlock" /\ handles[g].destroyed THEN HasBeenDestroyed
  ELSE IF KeyOfHandle(g) \notin registry[g.type] THEN DoesNotExist
  ELSE ""

\* the promise jobs that belong to the primitive of handle g
JobOfHandle(j, g) ==
  IF g.type = "rwlock"
  THEN j.s \in {"R", "W"} \/ j.k \in {"cont", "link"}
  ELSE j.s = KeyOfHandle(g)

\* a wrong destroy: the Map of the handle's kind is cleared
DestroyNamed_ClearsMap(g) ==
  /\ g \in SemaphoreHandles
  /\ handles' = [handles EXCEPT ![g].destroyed = TRUE]
  /\ registry' = [registry EXCEPT ![g.type] = {}]
  /\ UNCHANGED <<sem, req, mq, nextId>>

\* new InMemoryDistributedSemaphore(props, registry, type) for the name and
\* kind of g (a mutex has maxCount 1): sets the entry of its key.  A caller
\* constructs a new handle after it destroyed the one it had.
ConstructNamed(g, n) ==
  /\ g \in SemaphoreHandles /\ handles[g].destroyed
  /\ handles' = [handles EXCEPT ![g] = [made |-> TRUE, destroyed |-> FALSE]]
  /\ registry' = [registry EXCEPT ![g.type] = @ \cup {KeyOfHandle(g)}]
  /\ sem' = [sem EXCEPT ![KeyOfHandle(g)] =
                NewSemaphore(IF g.type = "mutex" THEN 1 ELSE n)]
  /\ mq' = SelectSeq(mq, LAMBDA j : ~(j.k = "cancel" /\ JobOfHandle(j, g)))
  /\ UNCHANGED <<req, nextId>>

\* the methods of a handle; a call whose lookup throws changes nothing in
\* the registry or in a primitive and is left out
AcquireNamed(g) ==
  /\ g \in SemaphoreHandles /\ nextId <= NamedReq
  /\ lookupNamed(g) = ""
  /\ Commit(acquire(IssueVia("acq", g), KeyOfHandle(g), nextId))
  /\ nextId' = nextId + 1

\* the holder of request id releases through the handle it acquired from
ReleaseNamed(g, id) ==
  /\ g \in SemaphoreHandles
  /\ req[id].kind = "acq" /\ req[id].st = "held" /\ req[id].via = g
  /\ lookupNamed(g) = ""
  /\ Commit(release([World EXCEPT !.req[id].st = "released",
                                  !.req[id].rel = 1], KeyOfHandle(g)))
  /\ UNCHANGED nextId

CancelAllNamed(g, m) ==
  /\ g \in SemaphoreHandles /\ lookupNamed(g) = ""
  /\ CancelsInProgress < MaxCancel
  /\ Commit(cancelAllBegin(World, KeyOfHandle(g), m))
  /\ UNCHANGED nextId

DestroyNamed(g) ==
  /\ g \in SemaphoreHandles
  /\ handles' = [handles EXCEPT ![g].destroyed = TRUE]
  /\ registry' = [registry EXCEPT ![g.type] = @ \ {KeyOfHandle(g)}]
  /\ UNCHANGED <<sem, req, mq, nextId>>

\* the read/write lock handle of name A; its callers take the write lock
AcquireWriteNamed(g) ==
  /\ g \in RWLockHandles /\ nextId <= NamedReq
  /\ lookupNamed(g) = ""
  /\ Commit(waitForFullyUnlock(IssueVia("write", g), "R", nextId))
  /\ nextId' = nextId + 1

\* releaser.release() of a write lock
ReleaseRWNamed(id) ==
  /\ req[id].kind = "write"
  /\ Release(id)

DestroyRWNamed(g) ==
  /\ g \in RWLockHandles /\ lookupNamed(g) = ""
  /\ handles' = [handles EXCEPT ![g].destroyed = TRUE]
  /\ registry' = [registry EXCEPT ![g.type] = @ \ {KeyOfHandle(g)}]
  /\ LET w == cancelAllBegin(cancelAllBegin(World, "R", RWLockDestroyed),
                             "W", RWLockDestroyed)
     IN  sem' = w.sem /\ req' = w.req /\ mq' = w.mq
  /\ UNCHANGED nextId

\* one handle of each name and kind has been constructed
InitNamed ==
  /\ sem = [k \in {KeyOfHandle(g) : g \in SemaphoreHandles} \cup {"R", "W"} |->
              NewSemaphore(1)]
  /\ req = [id \in Ids |-> NoReq]
  /\ mq = <<>>
  /\ nextId = 1
  /\ handles = [g \in NamedHandles |-> [made |-> TRUE, destroyed |-> FALSE]]
  /\ registry = [t \in Types |-> {KeyOfHandle(g) : g \in {x \in NamedHandles : x.type = t}}]

NextNamed ==
  \/ \E g \in NamedHandles : ConstructNamed(g, 1)
  \/ \E g \in NamedHandles : AcquireNamed(g)
  \/ \E g \in NamedHandles, id \in Ids : ReleaseNamed(g, id)
  \/ \E g \in NamedHandles : CancelAllNamed(g, Undefined)
  \/ \E g \in NamedHandles : DestroyNamed(g)
  \/ \E g \in NamedHandles : AcquireWriteNamed(g)
  \/ \E id \in Ids : ReleaseRWNamed(id)
  \/ \E g \in NamedHandles : DestroyRWNamed(g)
  \/ Microtask

SpecNamed == InitNamed /\ [][NextNamed]_vars

\* what a caller can observe of the primitive behind handle o: its
\* semaphore(s), its registration, its handle object and the requests made
\* through it
PrimitiveOf(o) ==
  [ sems  |-> IF o.type = "rwlock" THEN <<sem["R"], sem["W"]>>
              ELSE <<sem[KeyOfHandle(o)]>>,
    reg   |-> KeyOfHandle(o) \in registry[o.type],
    hnd   |-> handles[o],
    reqs  |-> [id \in Ids |-> IF req[id].kind # "none" /\ req[id].via = o
                            THEN req[id] ELSE NoReq] ]

\* ================================================================ claims
Range(q) == {q[i] : i \in 1..Len(q)}
Held(kind) == {id \in Ids : req[id].kind = kind /\ req[id].st = "held"}
\* the requests waiting in the wait queue of semaphore s
Waiting(s) == {id \in Range(sem[s].queue) : req[id].st = "queued"}
WorldNext == [sem |-> sem', req |-> req', mq |-> mq']
\* the step is the second half of a cancelAll call
CancelFinishStep == mq # <<>> /\ Head(mq).k = "cancel" /\ Head(mq).h = 1 /\ Microtask

\* C1: in every reachable state of a ReadWriteLock no reader holds a read
\* lock while a writer holds the write lock.
C1_NoReaderWhileWriter == ~(Held("read") # {} /\ Held("write") # {})

\* C2: in every reachable state of Semaphore(n), freeCount equals n minus the
\* number of acquisitions granted and not yet released, so the number of
\* concurrent holders never exceeds n.
C2_FreeCountIsUnheld ==
  /\ sem["S"].freeCount = sem["S"].maxCount - Cardinality(Held("acq"))
  /\ Cardinality(Held("acq")) <= sem["S"].maxCount

\* C3: with any number of concurrently started runExclusive tasks on
\* Semaphore(n) (Mutex: n = 1), with or without timeouts, at most n tasks
\* execute their body at the same time.
Bodies == {id \in Ids : req[id].st = "body"}
C3_ExclusiveBodies == Cardinality(Bodies) <= sem["S"].maxCount
C3_Witness ==
  /\ Cardinality(Bodies) = sem["S"].maxCount
  /\ \E id \in Bodies : req[id].how = "queue"
  /\ \E id \in Ids : req[id].st = "queued"
  /\ \E id \in Ids : req[id].err = TimeoutError

\* C4: a second or later release() on the same releaser has no effect: it
\* neither changes freeCount nor dequeues and grants a queued request.
C4_SecondReleaseNoEffect ==
  [][(\E id \in Ids : ReleaseAgain(id)) =>
       /\ sem' = sem
       /\ \A j \in Ids : req'[j].st = req[j].st]_vars

\* C5: queued acquire requests of one Semaphore are granted in the order they
\* were enqueued: a request granted by a release is the one that waited
\* longest among the requests waiting in the queue (request ids are issued
\* in call order and acquire enqueues within the call).
C5_FifoGrant ==
  [][\A id \in Ids :
       (req[id].st = "queued" /\ req'[id].st = "held") =>
         /\ id \in Waiting("S")
         /\ \A q \in Waiting("S") : q >= id
         /\ sem'["S"].queue = Tail(sem["S"].queue)]_vars
C5_Witness ==
  \E a, b, c \in Ids :
    /\ a < b /\ b < c
    /\ sem["S"].maxCount = 1
    /\ req[a].st = "released" /\ req[a].how = "queue"
    /\ req[b].st = "held" /\ req[b].how = "queue"
    /\ req[c].st = "queued" /\ c \in Range(sem["S"].queue)

\* C6: on Semaphore(n), 0 <= freeCount <= n holds in every state, and a
\* release performed when freeCount = n changes nothing.
C6_FreeCountInRange ==
  /\ sem["S"].freeCount >= 0
  /\ sem["S"].freeCount <= sem["S"].maxCount
  /\ sem["S"].freeCount = sem["S"].maxCount => release(World, "S") = World
C6_Witness ==
  /\ sem["S"].freeCount = sem["S"].maxCount
  /\ Held("acq") = {}
  /\ \E id \in Ids : req[id].rel = 2

\* C7: cancelAll(msg) rejects every queued request with msg; when the call
\* has completed the wait queue is empty, freeCount is maxCount and the next
\* acquire() is granted immediately, without being queued.
C7_CancelAll ==
  [][/\ \A m \in CancelArgs :
          CancelAll(m) =>
            \A id \in Waiting("S") :
              req'[id].st = "rejected" /\ req'[id].err = ErrText(m)
     /\ CancelFinishStep =>
          /\ sem'["S"].queue = <<>>
          /\ sem'["S"].freeCount = sem'["S"].maxCount
          /\ \A id \in Ids :
               req'[id].st = "new" =>
                 LET w == acquire(WorldNext, "S", id)
                 IN  w.req[id].st = "held" /\ w.sem["S"].queue = <<>>]_vars
C7_Witness ==
  \E a, b, c \in Ids :
    /\ a < b /\ b < c
    /\ req[a].st = "rejected" /\ req[a].err = "msg"
    /\ req[b].st = "rejected" /\ req[b].err = "msg"
    /\ req[c].st = "held" /\ req[c].how = "fast"
    /\ sem["S"].queue = <<>> /\ mq = <<>>
    /\ sem["S"].freeCount = sem["S"].maxCount - 1

\* C8: when a queued acquire request times out, exactly that request is
\* removed from the wait queue and rejected with 'Timeout acquiring
\* semaphore'; freeCount, the other queued requests and their order are
\* unchanged.
C8_TimeoutScoped ==
  [][\A id \in Ids :
       Timeout(id) =>
         /\ req'[id].st = "rejected"
         /\ req'[id].err = "Timeout acquiring semaphore"
         /\ sem'["S"].queue = SelectSeq(sem["S"].queue, LAMBDA x : x # id)
         /\ sem'["S"].freeCount = sem["S"].freeCount
         /\ \A j \in Ids \ {id} : req'[j] = req[j]]_vars
C8_Witness ==
  \E a, b, c \in Ids :
    /\ a < b /\ b < c
    /\ req[b].st = "rejected" /\ req[b].err = TimeoutError
    /\ sem["S"].queue = <<a, c>>
    /\ req[a].st = "queued" /\ req[c].st = "queued"

\* C9: at most one write lock of a ReadWriteLock is held at any time, when
\* every releaser is released at most once and cancelAll is not called.
C9_OneWriter == Cardinality(Held("write")) <= 1
C9_Witness ==
  \E a, b, c \in Ids :
    /\ a < b /\ b < c
    /\ req[a].kind = "write" /\ req[a].st = "released"
    /\ req[b].kind = "write" /\ req[b].st = "held" /\ req[b].how = "queue"
    /\ req[c].kind = "write" /\ req[c].st = "queued"

\* C10: in ReadWriteLock({maxReaders: m}) the number of concurrently held
\* read locks never exceeds m.
C10_ReadersBounded == Cardinality(Held("read")) <= sem["R"].maxCount

\* C11: runExclusive, withReadLock and withWriteLock release the acquired
\* permit on every exit path of the callback: the step in which the callback
\* returns or throws calls release() on the task's own semaphore (the permit
\* goes to the head of the wait queue, or back to freeCount), and the caller
\* receives the outcome only after that, unchanged: the thrown error when
\* the callback threw, the result when it returned.
C11_ReleaseOnEveryExit ==
  /\ [](\A id \in Ids :
          req[id].got # "" =>
            /\ req[id].rel = 1 /\ req[id].st = "released"
            /\ req[id].got = req[id].out)
  /\ [][\A id \in Ids :
          (req[id].st = "body" /\ req'[id].st # "body") =>
            LET s == OwnSem(req[id].kind)
            IN  /\ req'[id].st = "released" /\ req'[id].rel = 1
                /\ req'[id].out \in Outcomes /\ req'[id].got = ""
                /\ IF sem[s].queue # <<>>
                   THEN /\ req'[Head(sem[s].queue)].st = "held"
                        /\ sem'[s].queue = Tail(sem[s].queue)
                        /\ sem'[s].freeCount = sem[s].freeCount
                   ELSE sem'[s].freeCount = sem[s].freeCount + 1]_vars
C11_Witness ==
  \E a, b, c \in Ids :
    /\ a # b
    /\ req[a].got = "throw" /\ req[b].got = "return"
    /\ req[c].st = "body" /\ req[c].how = "queue"

\* the request has been granted or rejected
Settled(id) == req[id].st \in {"held", "released", "rejected"}
\* the request waits on the listener list of its opposing semaphore
AtGate(id) == req[id].st \in {"gateNew", "gateLinked"}

Orphan(id) == req[id].st = "queued" /\ id \notin Range(sem["S"].queue)

\* C14: every queued Semaphore.acquire request eventually settles, and in
\* one of three ways only: granted by a release, rejected by its own timeout,
\* or rejected by cancelAll; this includes a request enqueued while a
\* cancelAll call was in progress, which that call drops from the queue
\* without rejecting it.
C14_QueuedSettles ==
  /\ \A id \in Ids : (req[id].st = "queued") ~> Settled(id)
  /\ [][\A id \in Ids :
          (req[id].st = "queued" /\ req'[id].st # "queued") =>
            \/ /\ req'[id].st = "held"
               /\ \E h \in Ids : Release(h) \/ ReleaseAgain(h)
            \/ /\ req'[id].st = "rejected" /\ req'[id].err = TimeoutError
               /\ Timeout(id)
            \/ /\ req'[id].st = "rejected"
               /\ \E m \in CancelArgs : CancelAll(m) /\ req'[id].err = ErrText(m)]_vars
C14_Witness ==
  \E a, b \in Ids :
    /\ a < b
    /\ req[a].st = "rejected" /\ req[a].err \in {ErrText(m) : m \in CancelArgs}
    /\ Orphan(b)
    /\ mq = <<>>

\* C15: if every holder eventually releases, no timeout fires and cancelAll
\* is not called, every queued acquire request is eventually granted, and no
\* request is granted while one that arrived before it is still queued.
C15_NoStarvation ==
  /\ \A id \in Ids : (req[id].st = "queued") ~> (req[id].st = "held")
  /\ [][\A id \in Ids :
          (req[id].st # "held" /\ req'[id].st = "held") =>
            \A q \in Ids : req[q].st = "queued" => q >= id]_vars
C15_Witness ==
  \E a, b, c, d \in Ids :
    /\ a < b /\ b < c /\ c < d
    /\ req[a].st = "released" /\ req[a].how = "fast"
    /\ req[b].st = "released" /\ req[b].how = "queue"
    /\ req[c].st = "held" /\ req[c].how = "queue"
    /\ req[d].st = "queued"

\* the pending observers of semaphore S
Observers == {id \in Ids : req[id].st = "waiting"}

\* C16: cancelAll(msg) rejects with msg every pending waitForAnyUnlock and
\* waitForFullyUnlock observer; it resolves none of them, although freeCount
\* is maxCount afterwards; when the call has completed no observer is
\* pending and both listener lists are empty.
C16_CancelRejectsObservers ==
  [][/\ (\E m \in CancelArgs : CancelAll(m)) \/ CancelFinishStep =>
          \A id \in Observers : req'[id].st # "resolved"
     /\ CancelFinishStep =>
          /\ \A id \in Observers :
               /\ req'[id].st = "rejected"
               /\ req'[id].err = ErrText(Head(mq).msg)
          /\ \A id \in Ids : req'[id].st # "waiting"
          /\ sem'["S"].anyL = <<>> /\ sem'["S"].fullL = <<>>
          /\ sem'["S"].freeCount = sem'["S"].maxCount]_vars
C16_Witness ==
  \E a, b, c \in Ids :
    /\ req[a].kind = "any" /\ req[a].st = "rejected" /\ req[a].err = "msg"
    /\ req[b].kind = "full" /\ req[b].st = "rejected" /\ req[b].err = "msg"
    /\ req[c].kind = "acq" /\ req[c].st = "held"
    /\ Observers = {} /\ mq = <<>>
    /\ sem["S"].freeCount = sem["S"].maxCount

C18_IsReadLockedIffReaders ==
  /\ isReadLocked <=> activeReaders > 0
  /\ isReadLocked <=> Held("read") # {}
\* one of two reader permits is held: isReadLocked() answers false
C18_Witness ==
  /\ sem["R"].maxCount = 2
  /\ Cardinality(Held("read")) = 1 /\ activeReaders = 1
  /\ ~isReadLocked

\* C19: on a Mutex (a Semaphore of one permit) a waitForUnlock() call made
\* while the mutex is locked resolves once the current holder releases,
\* whether or not other acquire requests are queued at that moment; a call
\* made while the mutex is unlocked resolves immediately.
C19_WaitForUnlock ==
  [][sem["S"].maxCount = 1 =>
       /\ \A h \in Ids :
            (Release(h) /\ sem["S"].freeCount = 0) =>
              \A id \in Ids :
                (req[id].kind = "any" /\ req[id].st = "waiting") =>
                  req'[id].st = "resolved"
       /\ (WaitForAnyUnlock /\ sem["S"].freeCount > 0) =>
            req'[nextId].st = "resolved"]_vars
\* the holder has released, the permit went to a queued request, and the
\* waitForUnlock() call made before the release is still pending
C19_Witness ==
  \E a, b, c \in Ids :
    /\ a < b /\ b < c
    /\ sem["S"].maxCount = 1
    /\ req[a].kind = "acq" /\ req[a].st = "released" /\ req[a].how = "fast"
    /\ req[b].kind = "acq" /\ req[b].st = "held" /\ req[b].how = "queue"
    /\ req[c].kind = "any" /\ req[c].st = "waiting"
    /\ \A id \in Ids \ {a, b, c} : req[id].kind = "none"

\* the step is a release() call on a releaser
ReleaseStep == \E h \in Ids : Release(h) \/ ReleaseAgain(h)

\* C20: waitForFullyUnlock() resolves immediately when freeCount = maxCount;
\* otherwise it stays pending and is resolved by the release that brings
\* freeCount to maxCount; it is never resolved in a state where freeCount is
\* below maxCount.
C20_WaitForFullyUnlock ==
  [][/\ WaitForFullyUnlock =>
          IF sem["S"].freeCount = sem["S"].maxCount
          THEN req'[nextId].st = "resolved"
          ELSE req'[nextId].st = "waiting" /\ nextId \in Range(sem'["S"].fullL)
     /\ \A id \in Ids :
          (req[id].kind = "full" /\ req[id].st = "waiting") =>
            /\ req'[id].st = "resolved" =>
                  /\ ReleaseStep
                  /\ sem["S"].freeCount < sem["S"].maxCount
                  /\ sem'["S"].freeCount = sem'["S"].maxCount
            /\ (ReleaseStep /\ sem["S"].freeCount < sem["S"].maxCount
                             /\ sem'["S"].freeCount = sem'["S"].maxCount) =>
                  req'[id].st = "resolved"
     /\ \A id \in Ids :
          (req'[id].kind = "full" /\ req[id].st # "resolved"
                                  /\ req'[id].st = "resolved") =>
            sem'["S"].freeCount = sem'["S"].maxCount]_vars
C20_Witness ==
  \E a, b \in Ids :
    /\ req[a].kind = "full" /\ req[a].st = "resolved" /\ req[a].how = "listener"
    /\ req[b].kind = "full" /\ req[b].st = "resolved" /\ req[b].how = "fast"
    /\ sem["S"].maxCount = 2
    /\ Cardinality({id \in Ids : req[id].st = "released"}) = 2

\* the write requests waiting for the active readers to drain
WritersAtGate == {id \in Ids : req[id].kind = "write" /\ AtGate(id)}

\* C21: a waiting writer does not block new readers.  An acquireRead call
\* made while no writer holds passes the wait for the write semaphore at
\* once (it is not put on a listener list), also when acquireWrite requests
\* are waiting for the readers to drain; and when its acquisition on the read
\* semaphore runs while fewer than maxReaders readers hold, it is granted
\* without being queued, whatever write requests are waiting.
C21_WaitingWriterDoesNotBlock ==
  [][/\ (AcquireRead /\ sem["W"].freeCount = sem["W"].maxCount) =>
          /\ req'[nextId].st = "gateCont"
          /\ sem'["W"].fullL = sem["W"].fullL
     /\ \A id \in Ids :
          (req[id].kind = "read" /\ req[id].st = "gateCont"
             /\ req'[id].st # "gateCont" /\ sem["R"].freeCount > 0) =>
            /\ req'[id].st = "held" /\ req'[id].how = "fast"
            /\ sem'["R"].queue = sem["R"].queue]_vars
C21_Witness ==
  \E a, b, c \in Ids :
    /\ a < b /\ b < c
    /\ req[a].kind = "read" /\ req[a].st = "held"
    /\ req[b].kind = "write" /\ b \in WritersAtGate
    /\ req[c].kind = "read" /\ req[c].st = "held" /\ req[c].how = "fast"
    /\ sem["W"].freeCount = sem["W"].maxCount
    /\ \A id \in Ids \ {a, b, c} : req[id].kind = "none"

\* C22: an acquireWrite request that has entered the write semaphore's queue
\* is eventually granted once the holders ahead of it have released, when
\* its timeout does not fire and cancelAll is not called; it is granted by a
\* release of the write lock and by nothing else.
C22_QueuedWriterGranted ==
  /\ \A id \in Ids :
       (req[id].kind = "write" /\ req[id].st = "queued") ~> (req[id].st = "held")
  /\ [][\A id \in Ids :
          (req[id].kind = "write" /\ req[id].st = "queued") =>
            \/ req'[id].st = "queued" /\ id \in Range(sem'["W"].queue)
            \/ /\ req'[id].st = "held"
               /\ \E h \in Held("write") : Release(h)]_vars
C22_Witness ==
  \E a, b, c, r \in Ids :
    /\ a < b /\ b < c
    /\ req[a].kind = "write" /\ req[a].st = "released"
    /\ req[b].kind = "write" /\ req[b].st = "released" /\ req[b].how = "queue"
    /\ req[c].kind = "write" /\ req[c].st = "held" /\ req[c].how = "queue"
    /\ req[r].kind = "read" /\ req[r].st = "gateLinked"

\* an acquireWrite request that was issued and is neither granted nor rejected
PendingWrite(id) == req[id].kind = "write" /\ ~Settled(id)

Made == {h \in Handles : handles[h].made}
\* request id has just been granted its permit in this step
Granted(id) == req[id].st # "held" /\ req'[id].st = "held"

\* C24: all DistributedReadWriteLock handles of one name share one lock.
\* Constructing a handle under a registered name leaves the lock, its requests
\* and its pending jobs as they are; all handles read the same isWriteLocked()
\* and activeReaders(); and a permit granted to a request made through one
\* handle is taken from the lock every handle reads: after a write grant every
\* handle reads isWriteLocked() = true, after a read grant on the fast path
\* every handle reads one more active reader.
C24_HandlesShareLock ==
  /\ [](\A g, h \in Made : /\ isWriteLockedVia(g) = isWriteLockedVia(h)
                            /\ activeReadersVia(g) = activeReadersVia(h))
  /\ [][\A h \in Handles, m \in 1..MaxN :
          (registry /\ ConstructRW(h, m)) => UNCHANGED <<sem, req, mq>>]_vars
  /\ [][\A id \in Ids :
          (Granted(id) /\ registry /\ registry') =>
            \A h \in Made :
              /\ req[id].kind = "write" => isWriteLockedVia(h)' = TRUE
              /\ (req[id].kind = "read" /\ req'[id].how = "fast") =>
                    activeReadersVia(h)' = activeReadersVia(h) + 1]_vars
C24_Witness ==
  \E a, b \in Ids :
    /\ registry /\ Made = Handles
    /\ req[a].kind = "write" /\ req[a].st = "held" /\ req[a].via = 1
    /\ req[b].kind = "write" /\ req[b].st = "queued" /\ req[b].via = 2
    /\ isWriteLockedVia(2) = TRUE

\* C25: constructing a DistributedSemaphore or DistributedMutex under a name
\* that is registered reuses the backing semaphore and leaves its state as it
\* is: freeCount and the queued requests are the same after the construction,
\* and the new handle reads the freeCount the older handles read before.
C25_ConstructReusesSemaphore ==
  [][\A h \in Handles, n \in 1..MaxN :
       (registry /\ ConstructSem(h, n)) =>
         /\ sem'["S"].freeCount = sem["S"].freeCount
         /\ sem'["S"].queue = sem["S"].queue
         /\ \A g \in Made : getSemaphoreOrException(g) = "" =>
                               freeCountVia(h)' = freeCountVia(g)]_vars
\* two requests hold the one permit of a mutex that was never cancelled: the
\* second one got the permit of the semaphore its handle's constructor created
C25_Witness ==
  \E a, b \in Ids :
    /\ a < b
    /\ req[a].kind = "acq" /\ req[a].st = "held" /\ req[a].via = 1
    /\ req[b].kind = "acq" /\ req[b].st = "held" /\ req[b].via = 2
    /\ req[b].how = "fast"
    /\ sem["S"].maxCount = 1 /\ sem["S"].freeCount = 0
    /\ \A id \in Ids : req[id].st # "rejected"

\* handle.isDestroyed
isDestroyed(h) == handles[h].destroyed

\* C26: after destroy() on one of the handles of a name, isDestroyed is true
\* on every handle of that name, and a further acquireRead / acquireWrite on
\* any of them is rejected with a not-found error.
C26_DestroyMarksEveryHandle ==
  [][\A h \in Handles, m \in CancelArgs :
       DestroyRW(h, m) =>
         \A g \in Made : /\ isDestroyed(g)'
                         /\ getRWLockOrException(g)' = DoesNotExist]_vars
\* one handle destroyed the lock, the other handle is not marked destroyed,
\* and its acquire was rejected with the not-found error
C26_Witness ==
  \E g, h \in Made, id \in Ids :
    /\ isDestroyed(h) /\ ~isDestroyed(g) /\ ~registry
    /\ req[id].via = g /\ req[id].st = "rejected" /\ req[id].err = DoesNotExist

\* the messages destroy() is to reject the pending requests of a
\* DistributedSemaphore / DistributedMutex with
DestroyMessages == {"Semaphore destroyed", "Mutex destroyed"}

\* C27: destroy() on a distributed handle rejects every acquisition request
\* pending on the backing primitive, through whichever handle it was made,
\* with the destroy message of the primitive, and none of them is granted
\* afterwards.
C27_DestroyRejectsPending ==
  /\ [][\A h \in Handles :
          DestroySem(h) =>
            \A id \in Waiting("S") :
              /\ req'[id].st = "rejected"
              /\ req'[id].err \in DestroyMessages]_vars
  /\ [][\A id \in Ids :
          (~registry /\ req[id].st = "queued") => req'[id].st # "held"]_vars
\* after a destroy through handle 1, a request made through handle 2 is still
\* queued on the semaphore that was registered
C27_Witness ==
  \E id \in Ids :
    /\ Made = Handles /\ isDestroyed(1) /\ ~isDestroyed(2) /\ ~registry
    /\ id \in Waiting("S") /\ req[id].via = 2

\* C28: once destroy() has removed the entry, every later operation through a
\* handle constructed before that destroy fails with a not-found error, also
\* after a new handle was constructed under the name.  Stated for the handles
\* that are certainly older than a destroy, those destroy() was called on:
\* their lookup fails in every later state, and an acquireRead / acquireWrite
\* through them is rejected and leaves the registered lock as it is.
C28_StaleHandleAlwaysFails ==
  /\ [](\A h \in Made : isDestroyed(h) => getRWLockOrException(h) = DoesNotExist)
  /\ [][\A h \in Made :
          (isDestroyed(h) /\ (AcquireReadVia(h) \/ AcquireWriteVia(h))) =>
            /\ req'[nextId].st = "rejected"
            /\ req'[nextId].err = DoesNotExist
            /\ UNCHANGED <<sem, mq>>]_vars
\* a request made through the handle that destroyed the lock holds the write
\* lock of the lock registered by the handle constructed afterwards
C28_Witness ==
  \E id \in Ids :
    /\ isDestroyed(1) /\ handles[2].made /\ registry
    /\ req[id].via = 1 /\ req[id].kind = "write" /\ req[id].st = "held"
    /\ isWriteLockedVia(2) = TRUE

\* C29: constructing a ReadWriteLock with an explicitly given maxReaders <= 0
\* fails with a validation error, and no lock is created.
C29_BadMaxReadersRejected ==
  [][\A m \in CtorArgs :
       (m # <<>> /\ m[1] <= 0 /\ NewReadWriteLock(m)) =>
         /\ req'[nextId].st = "rejected"
         /\ req'[nextId].err = AssertionError
         /\ DOMAIN sem' = {}]_vars

\* the default message of a ReadWriteLock's cancelAll
RWLockCancelled == "ReadWriteLock cancelled"

\* C30: cancelAll called without a message rejects every pending request with
\* the message '<Primitive> cancelled' of the primitive it was called on; for
\* a ReadWriteLock: every request queued on its read or write semaphore is
\* rejected with 'ReadWriteLock cancelled'.
C30_DefaultCancelMessage ==
  [][CancelAllRW(Undefined) =>
       \A id \in Waiting("R") \cup Waiting("W") :
         /\ req'[id].st = "rejected"
         /\ req'[id].err = RWLockCancelled]_vars
\* a write request was rejected with the Semaphore's default message
C30_Witness ==
  \E id \in Ids :
    /\ req[id].kind = "write" /\ req[id].st = "rejected"
    /\ req[id].err = SemaphoreCancelled

\* request id timed out
TimedOut(id) == req[id].st = "rejected" /\ req[id].err = TimeoutError

\* C31: a queued acquire request settles exactly once.  Once granted it is
\* only ever released, once rejected it stays rejected with the same error;
\* the timer fires only for a request that is still pending; and a request
\* that timed out is no longer in the wait queue, so that no release hands it
\* a permit and no cancelAll rejects it.
C31_SettlesOnce ==
  /\ [](\A id \in Ids : TimedOut(id) => id \notin Range(sem["S"].queue))
  /\ [][\A id \in Ids :
          /\ req[id].st = "rejected" =>
                req'[id].st = "rejected" /\ req'[id].err = req[id].err
          /\ req[id].st = "held" => req'[id].st \in {"held", "released"}
          /\ req[id].st = "released" => req'[id].st = "released"
          /\ Timeout(id) => req[id].st = "queued"
          /\ (req[id].st # "queued" /\ \E t \in Ids : Timeout(t)) =>
                req'[id] = req[id]]_vars
C31_Witness ==
  \E b, c, d \in Ids :
    /\ TimedOut(b)
    /\ req[c].st = "held" /\ req[c].how = "queue" /\ b < c
    /\ req[d].st = "rejected" /\ req[d].err = SemaphoreCancelled
    /\ sem["S"].queue = <<>> /\ mq = <<>>

\* C32: in every reachable state of a Semaphore the wait queue holds exactly
\* the acquire requests that have not settled: every pending request is in
\* it, and no granted or rejected request is, also while a cancelAll is in
\* progress.
C32_QueueIsPending ==
  \A id \in Ids :
    req[id].kind = "acq" =>
      (req[id].st = "queued" <=> id \in Range(sem["S"].queue))
\* cancelAll has completed, and a request that was enqueued while it was in
\* progress is still pending but in no queue
C32_Witness ==
  \E id \in Ids :
    /\ req[id].kind = "acq" /\ req[id].st = "queued"
    /\ sem["S"].queue = <<>> /\ mq = <<>>

\* C33: a release performed while the wait queue is non-empty transfers the
\* permit to the head request: the head is removed and granted, and
\* freeCount, the order of the remaining queued requests, the listener lists
\* and the pending observers are unchanged.
C33_ReleaseTransfersPermit ==
  [][(ReleaseStep /\ sem["S"].queue # <<>>) =>
       /\ sem'["S"].queue = Tail(sem["S"].queue)
       /\ req'[Head(sem["S"].queue)].st = "held"
       /\ req'[Head(sem["S"].queue)].how = "queue"
       /\ sem'["S"].freeCount = sem["S"].freeCount
       /\ sem'["S"].anyL = sem["S"].anyL /\ sem'["S"].fullL = sem["S"].fullL
       /\ \A id \in Observers : req'[id] = req[id]]_vars
\* a release has shifted a request that cancelAll had rejected: the holder
\* released, nobody was granted, and no permit is free
C33_Witness ==
  \E a, b \in Ids :
    /\ req[a].st = "released" /\ req[a].rel = 1
    /\ req[b].st = "rejected" /\ req[b].err = SemaphoreCancelled
    /\ sem["S"].maxCount = 1 /\ sem["S"].freeCount = 0
    /\ sem["S"].queue = <<>> /\ CancelsInProgress = 1
    /\ \A id \in Ids : req[id].st \notin {"held", "queued"}
    /\ \A id \in Ids : req[id].kind \in {"acq", "none"}

\* C34: isWriteLocked() returns true exactly when a write lock is held,
\* granted and not yet released, after any sequence of acquireWrite,
\* acquireRead, release, timeout and cancelAll.
C34_IsWriteLockedIffHeld == isWriteLocked <=> Held("write") # {}
\* a writer holds, its release was never called, and isWriteLocked() is false
C34_Witness ==
  /\ Held("write") # {} /\ ~isWriteLocked
  /\ \A id \in Ids : req[id].rel = 0

\* C35: in every reachable state of a Semaphore a non-empty wait queue implies
\* freeCount = 0; hence an acquire that arrives while requests are queued is
\* enqueued behind them and takes no permit.
C35_QueuedMeansNoPermit ==
  /\ [](sem["S"].queue # <<>> => sem["S"].freeCount = 0)
  /\ [][(Acquire /\ sem["S"].queue # <<>>) =>
          /\ sem'["S"].queue = Append(sem["S"].queue, nextId)
          /\ req'[nextId].st = "queued"
          /\ sem'["S"].freeCount = sem["S"].freeCount]_vars
\* a permit was given back by a release to the head of the queue while a
\* request that arrived later waits behind another one
C35_Witness ==
  \E a, b, c \in Ids :
    /\ req[a].st = "held" /\ req[a].how = "queue"
    /\ a < b /\ b < c
    /\ sem["S"].queue = <<b, c>>
    /\ req[b].st = "queued" /\ req[c].st = "queued"
    /\ sem["S"].freeCount = 0

\* C36: in every reachable state of a Semaphore a waitForAnyUnlock observer
\* is pending only while freeCount = 0 and a waitForFullyUnlock observer only
\* while freeCount < maxCount, whichever of release or cancelAll raised
\* freeCount; and the pending observers are the ones on the listener lists.
C36_ObserverPendingOnlyWhileLocked ==
  \A id \in Observers :
    /\ req[id].kind = "any" =>
         sem["S"].freeCount = 0 /\ id \in Range(sem["S"].anyL)
    /\ req[id].kind = "full" =>
         sem["S"].freeCount < sem["S"].maxCount /\ id \in Range(sem["S"].fullL)
\* a release has raised freeCount above 0 and resolved a waitForAnyUnlock
\* observer, while a waitForFullyUnlock observer is still pending
C36_Witness ==
  \E a, f \in Ids :
    /\ req[a].kind = "any" /\ req[a].st = "resolved" /\ req[a].how = "listener"
    /\ req[f].kind = "full" /\ req[f].st = "waiting"
    /\ sem["S"].freeCount > 0

\* the errors an acquisition can fail with when cancelAll gets no message
AcquireErrors == {TimeoutError, SemaphoreCancelled}

\* C37: when the acquisition inside runExclusive, withReadLock or
\* withWriteLock fails, by timeout or cancellation, the body is never
\* executed, the caller receives the acquisition error, and no release is
\* performed: the task is left as the failure left it, no settlement of a
\* callback is scheduled for it, and the step in which its timer fires
\* changes no freeCount and removes only this request from its queue.
C37_FailedAcquisitionSkipsBody ==
  /\ [](\A id \in Ids :
         (req[id].task /\ req[id].st = "rejected") =>
           /\ req[id].rel = 0 /\ req[id].out = "" /\ req[id].got = ""
           /\ req[id].err \in AcquireErrors
           /\ received(id) = <<"throw", req[id].err>>
           /\ \A i \in 1..Len(mq) : ~(mq[i].k = "settle" /\ mq[i].id = id))
  /\ [][\A id \in Ids :
          /\ (req[id].task /\ req[id].st = "rejected") => req'[id] = req[id]
          /\ (req[id].task /\ Timeout(id)) =>
                /\ \A s \in DOMAIN sem :
                     /\ sem'[s].freeCount = sem[s].freeCount
                     /\ sem'[s].queue =
                          SelectSeq(sem[s].queue, LAMBDA q : q # id)
                /\ \A o \in Ids \ {id} : req'[o] = req[o]]_vars
\* one task failed by its timeout and one by cancelAll, while another task
\* ran its body to the end
C37_Witness ==
  \E a, b, c \in Ids :
    /\ req[a].task /\ req[a].st = "rejected" /\ req[a].err = TimeoutError
    /\ req[b].task /\ req[b].st = "rejected" /\ req[b].err = SemaphoreCancelled
    /\ req[c].task /\ req[c].got = "return"

\* an operation made through handle g: a method call, or a promise job that
\* continues one
OperationThrough(g) ==
  \/ AcquireNamed(g)
  \/ \E id \in Ids : ReleaseNamed(g, id)
  \/ CancelAllNamed(g, Undefined)
  \/ DestroyNamed(g)
  \/ AcquireWriteNamed(g)
  \/ \E id \in Ids : req[id].kind # "none" /\ req[id].via = g /\ ReleaseRWNamed(id)
  \/ DestroyRWNamed(g)
  \/ mq # <<>> /\ JobOfHandle(Head(mq), g) /\ Microtask

\* C38: an operation through the handle of one name and kind (acquire,
\* release, cancelAll, destroy) changes neither the freeCount, the wait queue
\* or the registration of the primitive of another name, nor those of a
\* primitive of another kind registered under the same name.
C38_NamesAndKindsAreIsolated ==
  [][\A o \in NamedHandles :
       PrimitiveOf(o)' # PrimitiveOf(o) =>
         \A g \in NamedHandles \ {o} : ~OperationThrough(g)]_vars

\* semaphore A was acquired and destroyed while semaphore B and mutex A are
\* held and still registered
C38_Witness ==
  LET a == [type |-> "semaphore", name |-> "A"]
      b == [type |-> "semaphore", name |-> "B"]
      m == [type |-> "mutex", name |-> "A"]
  IN  /\ handles[a].destroyed /\ ~PrimitiveOf(a).reg
      /\ \E id \in Ids : req[id].st = "held" /\ req[id].via = a
      /\ \E id \in Ids : req[id].st = "held" /\ req[id].via = b
      /\ \E id \in Ids : req[id].st = "held" /\ req[id].via = m
      /\ PrimitiveOf(b).reg /\ PrimitiveOf(m).reg
      /\ sem[KeyOfHandle(b)].freeCount = 0 /\ sem[KeyOfHandle(m)].freeCount = 0

====
